---- MODULE Spec2Model ----
(***************************************************************************)
(* A model of the medal decompiler core: the Lua 5.1 lifter                *)
(* (lua51-lifter/src/lifter.rs), the structurer (restructure/src/lib.rs),  *)
(* SSA destruction (cfg-ir/src/ssa/destruct.rs) and local replacement      *)
(* (ast/src/local.rs).                                                     *)
(*                                                                         *)
(* Offsets into the instruction stream are 0-based, as in the source: a    *)
(* stream is a function over 0 .. len-1.                                   *)
(***************************************************************************)
EXTENDS Integers, Sequences, FiniteSets, TLC

\* ------------------------------------------------------------------ bounds
\* Longest instruction stream of the control-flow family.
MaxLen == 3
\* Longest instruction stream of the table-construction family.
MaxTableLen == 3

\* bytecode.maximum_stack_size of the lifted functions.
NumRegisters == 3
\* bytecode.number_of_parameters of the lifted functions.
NumParameters == 1

\* ------------------------------------------------------- program constants
\* The signed-jump bias of the lifter.
BIAS == 131070

VARIABLES
    \* --- shared by the passes
    function,        \* the cfg Function the running pass works on
    phase,           \* which step of the running pass comes next
    \* --- LifterContext (lifter.rs:22-29) and the position inside lift()
    bytecode,        \* the decoded function record: [code, constants]
    nodes,           \* offset -> block id
    blocks_to_skip,  \* offsets of jump-only blocks
    locals,          \* register -> local
    insn_index,      \* create_block_map's loop index
    ranges,          \* lift_blocks: the spans still to translate
    offset,          \* lift_instruction: the offset of the next instruction
    statements,      \* lift_instruction: the statements of the span so far
    table_to_index,       \* lift_instruction: register -> index recorded by NewTable
    table_to_definition,  \* lift_instruction: register -> index of the table's assignment
    orphans,         \* lift: the node list of the orphan-cleanup loop still to visit
    \* --- GraphStructurer (restructure/src/lib.rs:15-19) and its loops
    root,            \* the entry node
    back_edges,      \* the edges GraphStructurer::new computed
    dfs_postorder,   \* match_blocks: the DfsPostOrder walker [stack, discovered, finished]
    changed,         \* match_blocks: the flag of the running pass
    matching,        \* the latest try_match_pattern call: [node, changed, node_count]
    result,          \* structure: the block returned
    \* --- destruct (cfg-ir/src/ssa/destruct.rs)
    def_use,         \* the DefUse oracle
    snapshot,        \* the collected (node, phi count) pairs
    cursor,          \* the pair the outer loop is at (1-based)
    phi_index,       \* the inner loop's index, counting down
    \* --- LocalRw::replace_values (ast/src/local.rs) on one statement
    stmt,            \* the statement being rewritten
    original,        \* the statement before the calls
    old,             \* the first call's old local
    new,             \* the first call's new local
    \* --- Table::infer (ast/src/table.rs)
    table,           \* the entries of the literal, each with its inferred type
    inferred         \* the type returned

spanVars == <<offset, statements, table_to_index, table_to_definition>>

liftVars == <<bytecode, nodes, blocks_to_skip, locals, insn_index, ranges,
              spanVars, orphans>>

structVars == <<root, back_edges, dfs_postorder, changed, matching, result>>

destructVars == <<def_use, snapshot, cursor, phi_index>>

replaceVars == <<stmt, original, old, new>>

inferVars == <<table, inferred>>

\* What lift() leaves alone.
notLiftVars == <<structVars, destructVars, replaceVars, inferVars>>

vars == <<function, phase, liftVars, structVars, destructVars, replaceVars, inferVars>>

\* ------------------------------------------------------------- utilities
Range(s) == {s[i] : i \in DOMAIN s}

\* m with key k set to v (HashMap::insert).
Inserted(m, k, v) == [x \in DOMAIN m \cup {k} |-> IF x = k THEN v ELSE m[x]]

\* m without key k (HashMap::remove).
Removed(m, k) == [x \in DOMAIN m \ {k} |-> m[x]]

RECURSIVE SortedSeq(_)
\* The elements of a finite set of integers in increasing order (sort_unstable).
SortedSeq(S) ==
    IF S = {} THEN <<>>
    ELSE LET m == CHOOSE x \in S : \A y \in S : x <= y
         IN <<m>> \o SortedSeq(S \ {m})

\* ------------------------------------------------ cfg::function::Function
\* The graph of basic blocks with stable ids.  A terminator is None, a jump
\* or a conditional; its targets are block ids.
NoTerminator == [kind |-> "None", targets |-> <<>>]
TerminatorJump(b) == [kind |-> "Jump", targets |-> <<b>>]
TerminatorConditional(t, e) == [kind |-> "Conditional", targets |-> <<t, e>>]

NoNode == -1

\* Function::default(): no block, no entry.  recycle records whether the
\* graph hands a vacated id out again (a slotted arena does, newest first).
EmptyFunction(recycle) ==
    [blocks |-> {}, terminator |-> <<>>, ast |-> <<>>, edges |-> {},
     entry |-> NoNode, next |-> 0, vacant |-> <<>>, recycle |-> recycle,
     parameters |-> <<>>, local_count |-> 0]

\* new_block(): the id handed out.
NewBlockId(f) ==
    IF f.recycle /\ f.vacant # <<>> THEN Head(f.vacant) ELSE f.next

\* new_block(): the function with an empty block of that id added.
NewBlock(f) ==
    LET id == NewBlockId(f)
        all == f.blocks \cup {id}
    IN [f EXCEPT
          !.blocks = all,
          !.terminator = [b \in all |-> IF b = id THEN NoTerminator ELSE f.terminator[b]],
          !.ast = [b \in all |-> IF b = id THEN <<>> ELSE f.ast[b]],
          !.next = IF id = f.next THEN f.next + 1 ELSE f.next,
          !.vacant = IF id = f.next THEN f.vacant ELSE Tail(f.vacant)]

\* remove_block(b): incident edges go first, then the block.
RemoveBlock(f, b) ==
    IF b \notin f.blocks THEN f
    ELSE LET rest == f.blocks \ {b}
         IN [f EXCEPT
               !.blocks = rest,
               !.terminator = [x \in rest |-> f.terminator[x]],
               !.ast = [x \in rest |-> f.ast[x]],
               !.edges = {e \in f.edges : e[1] # b /\ e[2] # b},
               !.vacant = <<b>> \o f.vacant]

\* set_block_terminator(b, t): the adjacency of b follows the terminator.  An
\* edge joins two blocks of the graph, so a target that is no block of the
\* graph gets no edge.
SetBlockTerminator(f, b, t) ==
    IF b \notin f.blocks THEN f
    ELSE [f EXCEPT
            !.terminator[b] = t,
            !.edges = {e \in f.edges : e[1] # b}
                      \cup {<<b, x>> : x \in Range(t.targets) \cap f.blocks}]

successor_blocks(f, b) == {e[2] : e \in {x \in f.edges : x[1] = b}}
predecessor_blocks(f, b) == {e[1] : e \in {x \in f.edges : x[2] = b}}

RECURSIVE ReachSet(_, _)
\* The blocks reachable along the edges from the blocks of seen.
ReachSet(f, seen) ==
    LET more == {e[2] : e \in {x \in f.edges : x[1] \in seen}} \ seen
    IN IF more = {} THEN seen ELSE ReachSet(f, seen \cup more)

\* ------------------------------------------------------------ instructions
Insn(op, a, b, c) == [op |-> op, A |-> a, B |-> b, C |-> c]

CodeLen(code) == Cardinality(DOMAIN code)

ConditionalOps == {"Equal", "LessThan", "LessThanOrEqual", "Test", "IterateGenericForLoop"}
ForLoopOps == {"IterateNumericForLoop", "PrepareNumericForLoop"}

\* The effective target of a jump or numeric-for instruction at offset i.
JumpTarget(i, step) == i + step - BIAS

\* ------------------------------------------------------- create_block_map
\* nodes.entry(key).or_insert_with(|| function.new_block()) on a context
\* [nodes, blocks_to_skip, function].
EntryOrInsert(ctx, key) ==
    IF key \in DOMAIN ctx.nodes THEN ctx
    ELSE [ctx EXCEPT
            !.nodes = [k \in DOMAIN ctx.nodes \cup {key} |->
                          IF k = key THEN NewBlockId(ctx.function) ELSE ctx.nodes[k]],
            !.function = NewBlock(ctx.function)]

\* The Jump arm: the target and the next offset become heads; a jump that is
\* itself a head loses its block and is mapped to the target's block.
BlockMapJump(ctx, i, step) ==
    LET c1 == EntryOrInsert(ctx, JumpTarget(i, step))
        dest_block == c1.nodes[JumpTarget(i, step)]
        c2 == EntryOrInsert(c1, i + 1)
    IN IF i \in DOMAIN c2.nodes
       THEN [c2 EXCEPT
               !.function = RemoveBlock(c2.function, c2.nodes[i]),
               !.nodes[i] = dest_block,
               !.blocks_to_skip = @ \cup {i}]
       ELSE c2

\* A create_block_map whose SetList arm is gone: no instruction is refused.
IsUnsupportedNever(insn) == FALSE

\* SetList { block_number: 0 } is the todo!() of create_block_map.
IsUnsupported(insn) == insn.op = "SetList" /\ insn.C = 0

\* One iteration of create_block_map's loop, for the instruction at offset i.
BlockMapStep(ctx, i, insn) ==
    CASE insn.op = "LoadBoolean" /\ insn.C = 1 ->
           EntryOrInsert(ctx, i + 2)
      [] insn.op \in ConditionalOps ->
           EntryOrInsert(EntryOrInsert(ctx, i + 1), i + 2)
      [] insn.op = "Jump" ->
           BlockMapJump(ctx, i, insn.A)
      [] insn.op \in ForLoopOps ->
           EntryOrInsert(EntryOrInsert(ctx, JumpTarget(i, insn.A)), i + 1)
      [] insn.op = "Return" ->
           EntryOrInsert(ctx, i + 1)
      [] OTHER -> ctx

\* ------------------------------------------------------------ code_ranges
\* The spans (start, end) of the blocks, the skipped offsets filtered out.
code_ranges(nds, skip, code) ==
    LET keys == SortedSeq(DOMAIN nds)
        n == Len(keys)
        end(j) == IF j < n THEN keys[j + 1] - 1 ELSE CodeLen(code) - 1
    IN SelectSeq([j \in 1 .. n |-> <<keys[j], end(j)>>],
                 LAMBDA r : r[1] \notin skip)

\* -------------------------------------------------------------------- ast
\* RValues, LValues and statements are records tagged by variant.  A
\* statement carries pc, the offset of the instruction it was translated
\* from, and a table entry the pc of the statement it was folded from.
RLocal(l) == [t |-> "Local", l |-> l]
RLiteral(v) == [t |-> "Literal", v |-> v]
RString(name) == [t |-> "Literal", v |-> "String", s |-> name]
RUnary(value) == [t |-> "Unary", value |-> value]
RCall(value, arguments) == [t |-> "Call", value |-> value, arguments |-> arguments]
RVarArg == [t |-> "VarArg"]
RTable(entries) == [t |-> "Table", entries |-> entries]

LLocal(l) == [t |-> "Local", l |-> l]
LIndex(left, right) == [t |-> "Index", left |-> left, right |-> right]

Assign(left, right, pc) == [k |-> "Assign", left |-> left, right |-> right, pc |-> pc]
If(condition, pc) == [k |-> "If", condition |-> condition, pc |-> pc]
Return(values, pc) == [k |-> "Return", values |-> values, pc |-> pc]
CallStatement(call, pc) == [k |-> "Call", call |-> call, pc |-> pc]
Comment(pc) == [k |-> "Comment", pc |-> pc]

RECURSIVE FlatMap(_, _)
\* flat_map of Op over a sequence.
FlatMap(Op(_), s) ==
    IF s = <<>> THEN <<>> ELSE Op(Head(s)) \o FlatMap(Op, Tail(s))

RECURSIVE rvalue_read(_)
\* LocalRw::values_read of an RValue or an LValue::Index.
rvalue_read(rv) ==
    CASE rv.t = "Local" -> <<rv.l>>
      [] rv.t = "Unary" -> rvalue_read(rv.value)
      [] rv.t = "Index" -> rvalue_read(rv.left) \o rvalue_read(rv.right)
      [] rv.t = "Call" -> rvalue_read(rv.value) \o FlatMap(rvalue_read, rv.arguments)
      [] rv.t = "Table" -> FlatMap(LAMBDA e : rvalue_read(e.value), rv.entries)
      [] OTHER -> <<>>

lvalue_read(lv) == IF lv.t = "Index" THEN rvalue_read(lv) ELSE <<>>
lvalue_written(lv) == IF lv.t = "Local" THEN <<lv.l>> ELSE <<>>

\* LocalRw::values_read of a statement.
values_read(st) ==
    CASE st.k = "Assign" -> FlatMap(lvalue_read, st.left) \o FlatMap(rvalue_read, st.right)
      [] st.k = "If" -> rvalue_read(st.condition)
      [] st.k = "Return" -> FlatMap(rvalue_read, st.values)
      [] st.k = "Call" -> rvalue_read(st.call)
      [] OTHER -> <<>>

\* LocalRw::values_written of a statement.
values_written(st) ==
    IF st.k = "Assign" THEN FlatMap(lvalue_written, st.left) ELSE <<>>

\* A local under a map old -> new (locals outside the map stay).
Renamed(m, l) == IF l \in DOMAIN m THEN m[l] ELSE l

RECURSIVE rvalue_rename(_, _)
\* Every read operand of an RValue (or LValue::Index) put through m.
rvalue_rename(rv, m) ==
    CASE rv.t = "Local" -> [rv EXCEPT !.l = Renamed(m, rv.l)]
      [] rv.t = "Unary" -> [rv EXCEPT !.value = rvalue_rename(rv.value, m)]
      [] rv.t = "Index" -> [rv EXCEPT !.left = rvalue_rename(rv.left, m),
                                      !.right = rvalue_rename(rv.right, m)]
      [] rv.t = "Call" ->
           [rv EXCEPT !.value = rvalue_rename(rv.value, m),
                      !.arguments = [j \in DOMAIN rv.arguments |->
                                        rvalue_rename(rv.arguments[j], m)]]
      [] rv.t = "Table" ->
           [rv EXCEPT !.entries = [j \in DOMAIN rv.entries |->
                         [rv.entries[j] EXCEPT !.value = rvalue_rename(@, m)]]]
      [] OTHER -> rv

\* Every operand values_read_mut yields, put through m.
rename_read(st, m) ==
    CASE st.k = "Assign" ->
           [st EXCEPT
              !.left = [j \in DOMAIN st.left |->
                          IF st.left[j].t = "Index" THEN rvalue_rename(st.left[j], m)
                          ELSE st.left[j]],
              !.right = [j \in DOMAIN st.right |-> rvalue_rename(st.right[j], m)]]
      [] st.k = "If" -> [st EXCEPT !.condition = rvalue_rename(@, m)]
      [] st.k = "Return" ->
           [st EXCEPT !.values = [j \in DOMAIN st.values |-> rvalue_rename(st.values[j], m)]]
      [] st.k = "Call" -> [st EXCEPT !.call = rvalue_rename(@, m)]
      [] OTHER -> st

\* ------------------------------------------------- LocalRw (ast/local.rs)
\* Locals of the functions handed to destruct and to replace_values.
NumLocals == 3

Locals == 0 .. NumLocals - 1

\* replace_values_read: the operands values_read_mut yields that equal old
\* become new.
replace_values_read(st, old_local, new_local) ==
    rename_read(st, old_local :> new_local)

\* A replace_values_written without the test of the operand against old.
replace_values_written_all(st, old_local, new_local) ==
    IF st.k = "Assign"
    THEN [st EXCEPT !.left = [j \in DOMAIN st.left |->
                                 IF st.left[j].t = "Local" THEN LLocal(new_local)
                                 ELSE st.left[j]]]
    ELSE st

\* replace_values_written: the operands values_written_mut yields that equal
\* old become new.
replace_values_written(st, old_local, new_local) ==
    IF st.k = "Assign"
    THEN [st EXCEPT !.left = [j \in DOMAIN st.left |->
                                 IF st.left[j].t = "Local" /\ st.left[j].l = old_local
                                 THEN LLocal(new_local)
                                 ELSE st.left[j]]]
    ELSE st

\* A replace_values that rewrites the read operands only.
replace_values_reads_only(st, old_local, new_local) ==
    replace_values_read(st, old_local, new_local)

\* replace_values: the reads, then the writes.
replace_values(st, old_local, new_local) ==
    replace_values_written(replace_values_read(st, old_local, new_local),
                           old_local, new_local)

\* values: the reads followed by the writes.
values(st) == values_read(st) \o values_written(st)

\* ------------------------------------------------- lift_instruction: SetList
\* s without its last n elements (drain(len - n ..)).
DropLast(s, n) == SubSeq(s, 1, Len(s) - n)

\* A table entry (field, value); field is "" for a positional entry.
Entry(field, value, pc) == [field |-> field, value |-> value, pc |-> pc]

\* The accumulator of retain_mut's closure:
\* [kept, elements, original_to_new, i, function, st], st the statement visited.

\* block_number > 1: the j-th LValue of acc.st, a local, is swapped for a fresh
\* local and the pair recorded in original_to_new.
SwapWritten(acc, j, block_number) ==
    IF block_number > 1
    THEN [acc EXCEPT
            !.st.left[j].l = acc.function.local_count,
            !.function.local_count = @ + 1,
            !.original_to_new = Inserted(@, acc.st.left[j].l, acc.function.local_count)]
    ELSE acc

\* The j-th LValue of acc.st as it stands becomes a positional entry, unless
\* it was the table's own local.
PushWritten(acc, j, is_not_self) ==
    IF is_not_self
    THEN [acc EXCEPT
            !.elements = Append(@, Entry("", RLocal(acc.st.left[j].l), acc.st.pc))]
    ELSE acc

RECURSIVE RetainWritten(_, _, _, _)
\* The loop over values_written_mut of the statement acc.st, from its j-th
\* LValue on.
RetainWritten(acc, j, table_local, block_number) ==
    IF acc.st.k # "Assign" \/ j > Len(acc.st.left) THEN acc
    ELSE IF acc.st.left[j].t # "Local"
    THEN RetainWritten(acc, j + 1, table_local, block_number)
    ELSE RetainWritten(
             PushWritten(SwapWritten(acc, j, block_number), j,
                         acc.st.left[j].l # table_local),
             j + 1, table_local, block_number)

\* Whether the statement is an assignment whose first LValue is an Index.
IsIndexStore(st) ==
    st.k = "Assign" /\ st.left # <<>> /\ st.left[1].t = "Index"

\* The field name of an index store with a literal string key, "" otherwise.
StoreField(st) ==
    LET key == st.left[1].right
    IN IF key.t = "Literal" /\ key.v = "String" THEN key.s ELSE ""

\* Whether retain_mut's closure folds the index store into the table.
FoldsStore(st) == StoreField(st) # ""

\* The closure's last lines: the statement is kept.
Keep(acc) == [acc EXCEPT !.kept = Append(@, acc.st), !.i = @ + 1]

\* The elements after the drain of lifter.rs:483-489.
Drained(elements, st) ==
    IF st.k = "Assign"
       /\ ~(st.right # <<>> /\ st.right[1].t = "Local")
       /\ Len(elements) >= Len(values_read(st))
    THEN DropLast(elements, Len(values_read(st)))
    ELSE elements

\* retain_mut's closure on statement st.
RetainOne(acc, st, table_index, table_local, block_number) ==
    IF acc.i < table_index
    THEN [acc EXCEPT !.kept = Append(@, st), !.i = @ + 1]
    ELSE IF IsIndexStore(st)
    THEN IF FoldsStore(st)
         THEN [acc EXCEPT
                 !.elements = Append(@, Entry(StoreField(st), st.right[1], st.pc))]
         ELSE acc
    ELSE Keep(RetainWritten(
                  [acc EXCEPT !.elements = Drained(@, st),
                              !.st = rename_read(st, acc.original_to_new)],
                  1, table_local, block_number))

RECURSIVE RetainFold(_, _, _, _, _, _)
\* statements.retain_mut(..) of the SetList arm, from the j-th statement on.
RetainFold(acc, stmts, j, table_index, table_local, block_number) ==
    IF j > Len(stmts) THEN acc
    ELSE RetainFold(RetainOne(acc, stmts[j], table_index, table_local, block_number),
                    stmts, j + 1, table_index, table_local, block_number)

\* The state lift_instruction threads through a span:
\* [statements, function, table_to_index, table_to_definition, panicked].
Panicked(L) == [L EXCEPT !.panicked = TRUE]

\* statements.remove(idx), idx 0-based.
RemoveAt(s, idx) == SubSeq(s, 1, idx) \o SubSeq(s, idx + 2, Len(s))

\* The tail of the SetList arm (lifter.rs:532-554): block_number > 1 moves the
\* table's recorded assignment to the end and extends its literal, otherwise a
\* fresh Table literal is assigned and its index recorded.
SetListEmit(L, lcl, insn, pc, stmts, elements, fn) ==
    IF insn.C > 1
    THEN IF insn.A \notin DOMAIN L.table_to_definition
            \/ L.table_to_definition[insn.A] >= Len(stmts)
         THEN Panicked(L)
         ELSE LET idx == L.table_to_definition[insn.A]
                  table_assignment == stmts[idx + 1]
              IN IF ~(table_assignment.k = "Assign"
                      /\ table_assignment.right # <<>>
                      /\ table_assignment.right[1].t = "Table")
                 THEN Panicked(L)
                 ELSE [L EXCEPT
                         !.function = fn,
                         !.table_to_definition = Removed(@, insn.A),
                         !.statements =
                             Append(RemoveAt(stmts, idx),
                                    [table_assignment EXCEPT
                                       !.right[1].entries = @ \o elements])]
    ELSE [L EXCEPT
            !.function = fn,
            !.table_to_definition = Inserted(@, insn.A, Len(stmts)),
            !.statements =
                Append(stmts,
                       Assign(<<LLocal(lcl[insn.A])>>, <<RTable(elements)>>, pc))]

\* number_of_elements == 0 (lifter.rs:518-530): the variadic tail is VarArg when
\* code[index - 1] is VarArg, else the call popped off the statements; index is
\* the position of the SetList inside its span.
SetListVariadic(L, lcl, code, insn, index, pc, stmts, elements, fn) ==
    IF index = 0 THEN Panicked(L)
    ELSE IF code[index - 1].op # "VarArg"
            /\ (stmts = <<>> \/ stmts[Len(stmts)].k # "Call")
    THEN Panicked(L)
    ELSE LET vararg == code[index - 1].op = "VarArg"
             variadic_expression ==
                 IF vararg THEN RVarArg ELSE stmts[Len(stmts)].call
             rest == IF vararg THEN stmts ELSE DropLast(stmts, 1)
             read == Len(rvalue_read(variadic_expression))
         IN IF read > Len(elements) THEN Panicked(L)
            ELSE SetListEmit(L, lcl, insn, pc, rest,
                             Append(DropLast(elements, read),
                                    Entry("", variadic_expression, pc)),
                             fn)

\* The SetList arm after retain_mut, whose result is r.
SetListRest(L, lcl, code, insn, index, pc, r) ==
    IF insn.B = 0
    THEN SetListVariadic(L, lcl, code, insn, index, pc, r.kept, r.elements, r.function)
    ELSE SetListEmit(L, lcl, insn, pc, r.kept, r.elements, r.function)

\* The SetList arm (lifter.rs:453-555).  table_to_index[table] is read by the
\* closure of retain_mut, that is once there is a statement to visit.
SetListArm(L, lcl, code, insn, index, pc) ==
    IF L.statements # <<>> /\ insn.A \notin DOMAIN L.table_to_index
    THEN Panicked(L)
    ELSE SetListRest(L, lcl, code, insn, index, pc,
             RetainFold([kept |-> <<>>, elements |-> <<>>,
                         original_to_new |-> <<>>, i |-> 0,
                         function |-> L.function, st |-> Comment(pc)],
                        L.statements, 1,
                        IF L.statements = <<>> THEN 0 ELSE L.table_to_index[insn.A],
                        lcl[insn.A], insn.C))

\* ------------------------------------------------------- lift_instruction
\* An operand that is a register or a constant.
Reg(r) == [k |-> "R", i |-> r]
Const(c) == [k |-> "K", i |-> c]

\* constant(c): the literal of constant c of the pool.
constant(constants, c) ==
    IF constants[c].v = "String" THEN RString(constants[c].s)
    ELSE RLiteral(constants[c].v)

register_or_constant(lcl, constants, operand) ==
    IF operand.k = "R" THEN RLocal(lcl[operand.i]) ELSE constant(constants, operand.i)

Push(L, st) == [L EXCEPT !.statements = Append(@, st)]

\* The TestSet arm (lifter.rs:323-376): a new block holding the assignment,
\* reached from the span's block when the test fails.
TestSetArm(L, cx, insn, start, end, pc) ==
    LET value == RLocal(cx.locals[insn.B])
        assign == Assign(<<LLocal(cx.locals[insn.A])>>, <<value>>, pc)
        new_block == NewBlockId(L.function)
        f1 == NewBlock(L.function)
        pushed == Push([L EXCEPT !.function = f1],
                       If(IF insn.C = 1 THEN RUnary(value) ELSE value, pc))
    IN IF (end + 1) \notin DOMAIN cx.nodes \/ cx.code[end].op # "Jump"
       THEN Panicked(pushed)
       ELSE LET condition_block == cx.nodes[start]
                next_block == cx.nodes[end + 1]
                f2 == [f1 EXCEPT !.ast[new_block] = Append(@, assign)]
                f3 == SetBlockTerminator(f2, condition_block,
                                         TerminatorConditional(next_block, new_block))
                target == JumpTarget(end, cx.code[end].A)
            IN IF target \notin DOMAIN cx.nodes THEN Panicked(pushed)
               ELSE [pushed EXCEPT
                       !.function = SetBlockTerminator(f3, new_block,
                                        TerminatorJump(cx.nodes[target]))]

\* The Call arm (lifter.rs:377-413).
CallArm(L, lcl, insn, pc) ==
    LET call == RCall(RLocal(lcl[insn.A]),
                      IF insn.B <= 1 THEN <<>>
                      ELSE [j \in 1 .. insn.B - 1 |-> RLocal(lcl[insn.A + j])])
    IN Push(L, IF insn.C > 1
               THEN Assign([j \in 1 .. insn.C - 1 |-> LLocal(lcl[insn.A + j - 1])],
                           <<call>>, pc)
               ELSE CallStatement(call, pc))

\* The body of lift_instruction's loop for the instruction at offset pc of the
\* span start ..= end.  cx = [nodes, locals, code, constants].
LiftOne(L, cx, start, end, pc) ==
    LET insn == cx.code[pc]
        lcl == cx.locals
    IN CASE insn.op = "Move" ->
              Push(L, Assign(<<LLocal(lcl[insn.A])>>, <<RLocal(lcl[insn.B])>>, pc))
         [] insn.op = "LoadBoolean" ->
              Push(L, Assign(<<LLocal(lcl[insn.A])>>, <<RLiteral("Boolean")>>, pc))
         [] insn.op = "LoadConstant" ->
              Push(L, Assign(<<LLocal(lcl[insn.A])>>, <<constant(cx.constants, insn.B)>>, pc))
         [] insn.op = "Test" ->
              Push(L, If(IF insn.B = 1 THEN RLocal(lcl[insn.A])
                         ELSE RUnary(RLocal(lcl[insn.A])), pc))
         [] insn.op = "Return" ->
              Push(L, Return([j \in 1 .. insn.A |-> RLocal(lcl[j - 1])], pc))
         [] insn.op = "Jump" -> L
         [] insn.op = "TestSet" -> TestSetArm(L, cx, insn, start, end, pc)
         [] insn.op = "Call" -> CallArm(L, lcl, insn, pc)
         [] insn.op = "NewTable" ->
              [L EXCEPT !.table_to_index = Inserted(@, insn.A, Len(L.statements))]
         [] insn.op = "SetList" -> SetListArm(L, lcl, cx.code, insn, pc - start, pc)
         [] insn.op = "SetTable" ->
              Push(L, Assign(<<LIndex(RLocal(lcl[insn.A]),
                                      register_or_constant(lcl, cx.constants, insn.B))>>,
                             <<register_or_constant(lcl, cx.constants, insn.C)>>, pc))
         [] OTHER -> Push(L, Comment(pc))

\* ------------------------------------------------------------- lift_blocks
\* The match on code[end] of lift_blocks (lifter.rs:596-641) for the span
\* start ..= end: [function, panicked].  nodes[k] panics when k is no key.
InstallTerminator(f, nds, code, start, end) ==
    LET insn == code[end]
        ok(g) == [function |-> g, panicked |-> FALSE]
        panic == [function |-> f, panicked |-> TRUE]
        has(k) == k \in DOMAIN nds
    IN CASE insn.op \in ConditionalOps ->
              IF has(end + 1) /\ has(end + 2)
              THEN ok(SetBlockTerminator(f, nds[start],
                         TerminatorConditional(nds[end + 1], nds[end + 2])))
              ELSE panic
         [] insn.op = "Jump" \/ insn.op \in ForLoopOps ->
              IF f.terminator[nds[start]].kind # "None" THEN ok(f)
              ELSE IF has(JumpTarget(end, insn.A))
              THEN ok(SetBlockTerminator(f, nds[start],
                         TerminatorJump(nds[JumpTarget(end, insn.A)])))
              ELSE panic
         [] insn.op = "Return" -> ok(f)
         [] insn.op = "LoadBoolean" ->
              IF has(end + 1 + insn.C)
              THEN ok(SetBlockTerminator(f, nds[start],
                         TerminatorJump(nds[end + 1 + insn.C])))
              ELSE panic
         [] OTHER ->
              IF end + 1 # CodeLen(code)
              THEN IF has(end + 1)
                   THEN ok(SetBlockTerminator(f, nds[start], TerminatorJump(nds[end + 1])))
                   ELSE panic
              ELSE ok(f)

\* ------------------------------------------------------------ the inputs
Jump(d) == Insn("Jump", BIAS + d, 0, 0)

\* The instructions of the control-flow family for streams of up to n
\* instructions.
ControlFlowInsns(n) ==
    {Jump(d) : d \in (1 - n) .. (n - 1)}
    \cup {Insn("Test", 0, 1, 0), Insn("Return", 0, 0, 0),
          Insn("LoadConstant", 1, 1, 0),
          Insn("IterateNumericForLoop", BIAS - 1, 0, 0),
          Insn("LoadBoolean", 1, 1, 1), Insn("TestSet", 1, 0, 1),
          Insn("SetList", 0, 1, 0), Insn("Equal", 1, Reg(1), Reg(2))}

\* The instructions of the table-construction family: table R0, values in
\* R1 and R2, constant 0 a string and constant 1 a number.
TableInsns ==
    {Insn("NewTable", 0, 0, 0), Insn("LoadConstant", 1, 1, 0),
     Insn("Move", 2, 1, 0),
     Insn("SetTable", 0, Const(0), Reg(1)), Insn("SetTable", 0, Const(1), Reg(1)),
     Insn("SetList", 0, 1, 1), Insn("SetList", 0, 1, 2), Insn("SetList", 0, 0, 1),
     Insn("Call", 1, 1, 1), Insn("VarArg", 1, 0, 0), Insn("Return", 0, 0, 0)}

\* Longest instruction stream of the SetList-chain family.
MaxChainLen == 5

\* The instructions of the SetList-chain family: table R0 filled from R1 by
\* SetLists of block numbers 1, 2 and 3.
ChainInsns ==
    {Insn("NewTable", 0, 0, 0), Insn("LoadConstant", 1, 1, 0),
     Insn("SetList", 0, 1, 1), Insn("SetList", 0, 1, 2), Insn("SetList", 0, 1, 3)}

\* Longest instruction stream of the variadic-SetList family.
MaxVariadicLen == 5

\* The instructions of the variadic-SetList family: table R0 whose tail is
\* the vararg or the results of the call of R1; a LoadBoolean that skips
\* makes a block start at a later offset.
VariadicInsns ==
    {Insn("LoadBoolean", 1, 1, 1), Insn("NewTable", 0, 0, 0),
     Insn("LoadConstant", 1, 1, 0), Insn("VarArg", 1, 0, 0),
     Insn("Call", 1, 1, 1), Insn("SetList", 0, 0, 1)}

\* Every jump of the stream lands on an instruction of the stream.
TargetsInside(code) ==
    \A i \in DOMAIN code :
        code[i].op \in {"Jump"} \cup ForLoopOps
            => JumpTarget(i, code[i].A) \in DOMAIN code

Streams ==
    UNION {{c \in [0 .. n - 1 -> ControlFlowInsns(n)] : TargetsInside(c)} : n \in 1 .. MaxLen}
    \cup UNION {[0 .. n - 1 -> TableInsns] : n \in 1 .. MaxTableLen}
    \cup UNION {[0 .. n - 1 -> ChainInsns] : n \in 1 .. MaxChainLen}
    \cup UNION {[0 .. n - 1 -> VariadicInsns] : n \in 1 .. MaxVariadicLen}

ConstantPool == [c \in 0 .. 1 |-> IF c = 0 THEN [v |-> "String", s |-> "x"]
                                  ELSE [v |-> "Number"]]

\* ------------------------------------------- Table::infer (ast/table.rs)
\* A type is a record: Any, a primitive, or a union of types.
Prim(name) == [t |-> name, of |-> {}]
Union(types) == [t |-> "Union", of |-> types]
TypeAny == Prim("Any")

\* is_subtype_of of the lattice: any type under Any, a type under itself and
\* under a union that holds it.
is_subtype_of(t, x) ==
    \/ x = TypeAny
    \/ t = x
    \/ (x.t = "Union" /\ t \in x.of)

\* An entry of a literal after its value is inferred; field is "" for a
\* positional entry.
TypedEntry(field, type) == [field |-> field, type |-> type]

\* The first collect of infer: the set of (field, type) pairs.
InferElements(entries) == {<<e.field, e.type>> : e \in Range(entries)}

\* The filter of infer (table.rs:21-26): a named pair stays; a positional
\* pair stays unless its type is a strict subtype of the type of some pair.
InferKept(elements) ==
    {p \in elements :
        \/ p[1] # ""
        \/ ~\E q \in elements : p[2] # q[2] /\ is_subtype_of(p[2], q[2])}

\* The indexer's value type (table.rs:36-40) from the positional types left.
InferIndexer(types) ==
    IF Cardinality(types) > 1 THEN Union(types)
    ELSE IF types = {} THEN TypeAny
    ELSE CHOOSE x \in types : TRUE

\* Table::infer on a literal whose named fields have distinct names.
TableInfer(entries) ==
    LET kept == InferKept(InferElements(entries))
        named == {p \in kept : p[1] # ""}
    IN [indexer |-> InferIndexer({p[2] : p \in kept \ named}),
        fields |-> [f \in {p[1] : p \in named} |->
                       (CHOOSE p \in named : p[1] = f)[2]]]

\* ------------------------------------------------------------ idle passes
\* The state of a pass that does not run.
LiftIdle ==
    /\ bytecode = [code |-> <<>>, constants |-> <<>>]
    /\ nodes = <<>>
    /\ blocks_to_skip = {}
    /\ locals = <<>>
    /\ insn_index = 0
    /\ ranges = <<>>
    /\ offset = 0
    /\ statements = <<>>
    /\ table_to_index = <<>>
    /\ table_to_definition = <<>>
    /\ orphans = <<>>

StructIdle ==
    /\ root = NoNode
    /\ back_edges = {}
    /\ dfs_postorder = [stack |-> <<>>, discovered |-> {}, finished |-> {}]
    /\ changed = FALSE
    /\ matching = [node |-> NoNode, changed |-> FALSE, node_count |-> 0]
    /\ result = <<>>

DestructIdle ==
    /\ def_use = [counts_phis |-> FALSE]
    /\ snapshot = <<>>
    /\ cursor = 0
    /\ phi_index = 0

ReplaceIdle ==
    /\ stmt = Comment(0)
    /\ original = Comment(0)
    /\ old = 0
    /\ new = 0

InferIdle ==
    /\ table = <<>>
    /\ inferred = [indexer |-> TypeAny, fields |-> <<>>]

\* --------------------------------------------------------------- lift()
\* The context as constructed at the head of lift (lifter.rs:646-653).
LiftInit ==
    /\ bytecode \in [code : Streams, constants : {ConstantPool}]
    /\ nodes = <<>>
    /\ blocks_to_skip = {}
    /\ locals = <<>>
    /\ function \in {EmptyFunction(r) : r \in BOOLEAN}
    /\ phase = "lift"
    /\ insn_index = 0
    /\ ranges = <<>>
    /\ offset = 0
    /\ statements = <<>>
    /\ table_to_index = <<>>
    /\ table_to_definition = <<>>
    /\ orphans = <<>>
    /\ StructIdle /\ DestructIdle /\ ReplaceIdle /\ InferIdle

Context == [nodes |-> nodes, blocks_to_skip |-> blocks_to_skip, function |-> function]

\* create_block_map is entered: the block of offset 0 is seeded.
BlockMapSeed ==
    /\ phase = "lift"
    /\ phase' = "create_block_map"
    /\ nodes' = (0 :> NewBlockId(function))
    /\ function' = NewBlock(function)
    /\ insn_index' = 0
    /\ UNCHANGED <<notLiftVars, bytecode, blocks_to_skip, locals, ranges, spanVars, orphans>>

\* One iteration of create_block_map's loop; the loop ends on the todo!() of
\* an unsupported SetList, or after the last instruction.
BlockMapInsn ==
    /\ phase = "create_block_map"
    /\ insn_index < CodeLen(bytecode.code)
    /\ LET insn == bytecode.code[insn_index]
           ctx == BlockMapStep(Context, insn_index, insn)
       IN IF IsUnsupported(insn)
          THEN /\ phase' = "panicked"
               /\ UNCHANGED <<nodes, blocks_to_skip, function, insn_index>>
          ELSE /\ nodes' = ctx.nodes
               /\ blocks_to_skip' = ctx.blocks_to_skip
               /\ function' = ctx.function
               /\ insn_index' = insn_index + 1
               /\ phase' = IF insn_index + 1 = CodeLen(bytecode.code)
                           THEN "allocate_locals" ELSE phase
    /\ UNCHANGED <<notLiftVars, bytecode, locals, ranges, spanVars, orphans>>

\* The blocks the orphan-cleanup loop visits: every node but the entry's, in
\* index order.
OrphanCandidates(f, nds) == SortedSeq(f.blocks \ {nds[0]})

\* allocate_locals: one local per register, the first ones the parameters;
\* then lift_blocks takes the spans of code_ranges.
AllocateLocals ==
    /\ phase = "allocate_locals"
    /\ locals' = [r \in 0 .. NumRegisters - 1 |-> function.local_count + r]
    /\ function' = [function EXCEPT
                      !.local_count = @ + NumRegisters,
                      !.parameters = [j \in 1 .. NumParameters |->
                                         function.local_count + j - 1]]
    /\ ranges' = code_ranges(nodes, blocks_to_skip, bytecode.code)
    /\ offset' = IF ranges' = <<>> THEN 0 ELSE Head(ranges')[1]
    /\ phase' = IF ranges' = <<>> THEN "remove_orphans" ELSE "lift_blocks"
    /\ orphans' = IF ranges' = <<>> THEN OrphanCandidates(function', nodes) ELSE orphans
    /\ UNCHANGED <<notLiftVars, bytecode, nodes, blocks_to_skip, insn_index,
                   statements, table_to_index, table_to_definition>>

\* Slicing code[start ..= end] panics when the span leaves the stream.
SpanInside(code, start, end) == end < CodeLen(code) /\ start <= end + 1

SpanStart == Head(ranges)[1]
SpanEnd == Head(ranges)[2]

\* lift_instruction is called on a span that leaves the stream.
LiftSpanPanic ==
    /\ phase = "lift_blocks"
    /\ ~SpanInside(bytecode.code, SpanStart, SpanEnd)
    /\ phase' = "panicked"
    /\ UNCHANGED <<notLiftVars, bytecode, nodes, blocks_to_skip, locals, function, insn_index,
                   ranges, spanVars, orphans>>

LiftState ==
    [statements |-> statements, function |-> function,
     table_to_index |-> table_to_index,
     table_to_definition |-> table_to_definition, panicked |-> FALSE]

LiftContext ==
    [nodes |-> nodes, locals |-> locals, code |-> bytecode.code,
     constants |-> bytecode.constants]

\* The state after an iteration of lift_instruction's loop that left L; the
\* loop breaks after a Return.
LiftCommit(L) ==
    IF L.panicked
    THEN /\ phase' = "panicked"
         /\ UNCHANGED <<function, spanVars>>
    ELSE /\ phase' = phase
         /\ function' = L.function
         /\ statements' = L.statements
         /\ table_to_index' = L.table_to_index
         /\ table_to_definition' = L.table_to_definition
         /\ offset' = IF bytecode.code[offset].op = "Return" THEN SpanEnd + 1
                      ELSE offset + 1

\* One iteration of lift_instruction's loop (lifter.rs:144-581).
LiftInsn ==
    /\ phase = "lift_blocks"
    /\ SpanInside(bytecode.code, SpanStart, SpanEnd)
    /\ offset <= SpanEnd
    /\ LiftCommit(LiftOne(LiftState, LiftContext, SpanStart, SpanEnd, offset))
    /\ UNCHANGED <<notLiftVars, bytecode, nodes, blocks_to_skip, locals, insn_index, ranges, orphans>>

\* The rest of an iteration of lift_blocks' loop (lifter.rs:590-641): the
\* statements go to the span's block and its terminator is installed; after
\* the last span the node list of the orphan cleanup is collected.
LiftTerminator ==
    /\ phase = "lift_blocks"
    /\ SpanInside(bytecode.code, SpanStart, SpanEnd)
    /\ offset > SpanEnd
    /\ LET block == nodes[SpanStart]
           r == IF block \in function.blocks
                THEN InstallTerminator([function EXCEPT !.ast[block] = @ \o statements],
                                       nodes, bytecode.code, SpanStart, SpanEnd)
                ELSE [function |-> function, panicked |-> TRUE]
       IN IF r.panicked
          THEN /\ phase' = "panicked"
               /\ UNCHANGED <<function, ranges, spanVars, orphans>>
          ELSE /\ function' = r.function
               /\ ranges' = Tail(ranges)
               /\ statements' = <<>>
               /\ table_to_index' = <<>>
               /\ table_to_definition' = <<>>
               /\ offset' = IF Tail(ranges) = <<>> THEN 0 ELSE Head(Tail(ranges))[1]
               /\ phase' = IF Tail(ranges) = <<>> THEN "remove_orphans" ELSE phase
               /\ orphans' = IF Tail(ranges) = <<>>
                             THEN OrphanCandidates(r.function, nodes) ELSE orphans
    /\ UNCHANGED <<notLiftVars, bytecode, nodes, blocks_to_skip, locals, insn_index>>

\* An orphan cleanup that removes nothing.
IsOrphanNever(f, node) == FALSE

\* Whether the orphan-cleanup loop removes the node it visits.
IsOrphan(f, node) == predecessor_blocks(f, node) = {}

\* One iteration of the orphan-cleanup loop (lifter.rs:658-668).
RemoveOrphan ==
    /\ phase = "remove_orphans"
    /\ orphans # <<>>
    /\ function' = IF IsOrphan(function, Head(orphans))
                   THEN RemoveBlock(function, Head(orphans)) ELSE function
    /\ orphans' = Tail(orphans)
    /\ UNCHANGED <<notLiftVars, bytecode, nodes, blocks_to_skip, locals, phase, insn_index,
                   ranges, spanVars>>

\* set_entry(nodes[0]) and the return of the function.
SetEntry ==
    /\ phase = "remove_orphans"
    /\ orphans = <<>>
    /\ function' = [function EXCEPT !.entry = nodes[0]]
    /\ phase' = "returned"
    /\ UNCHANGED <<notLiftVars, bytecode, nodes, blocks_to_skip, locals, insn_index, ranges,
                   spanVars, orphans>>

LiftNext ==
    \/ BlockMapSeed
    \/ BlockMapInsn
    \/ AllocateLocals
    \/ LiftSpanPanic
    \/ LiftInsn
    \/ LiftTerminator
    \/ RemoveOrphan
    \/ SetEntry

Init == LiftInit
Next == LiftNext
Spec == Init /\ [][Next]_vars

\* ------------------------------------------------- restructure (lib.rs)
\* Most blocks of a structured function.
MaxBlocks == 4

RBinary(left, op, right) == [t |-> "Binary", left |-> left, op |-> op, right |-> right]

\* block_is_no_op: every statement of the block is a comment.
block_is_no_op(block) == \A i \in DOMAIN block : block[i].k = "Comment"

\* jump.rs, match_jump(node, target): a target whose only predecessor is node
\* is spliced into node; a no-op target that only jumps on is bypassed.
match_jump(f, node, target) ==
    IF predecessor_blocks(f, target) = {node}
    THEN [changed |-> TRUE,
          function |->
              RemoveBlock(
                  SetBlockTerminator([f EXCEPT !.ast[node] = @ \o f.ast[target]],
                                     node, f.terminator[target]),
                  target)]
    ELSE IF block_is_no_op(f.ast[target]) /\ f.terminator[target].kind = "Jump"
    THEN [changed |-> TRUE,
          function |-> SetBlockTerminator(f, node, f.terminator[target])]
    ELSE [changed |-> FALSE, function |-> f]

\* Whether inner can be folded into node: a conditional reached from node
\* only, with nothing but comments before its test.
IsFoldable(f, node, inner) ==
    /\ inner # node
    /\ f.terminator[inner].kind = "Conditional"
    /\ predecessor_blocks(f, inner) = {node}
    /\ f.ast[inner] # <<>>
    /\ f.ast[inner][Len(f.ast[inner])].k = "If"
    /\ block_is_no_op(DropLast(f.ast[inner], 1))
    /\ f.ast[node] # <<>>
    /\ f.ast[node][Len(f.ast[node])].k = "If"

\* The test of a conditional block: the condition of its closing If.
ConditionOf(f, b) == f.ast[b][Len(f.ast[b])].condition

\* node's test becomes condition, its terminator Conditional(t, e), and inner
\* leaves the graph.
Fold(f, node, inner, condition, t, e) ==
    [changed |-> TRUE,
     function |->
         RemoveBlock(
             SetBlockTerminator(
                 [f EXCEPT !.ast[node][Len(f.ast[node])].condition = condition],
                 node, TerminatorConditional(t, e)),
             inner)]

\* compound.rs, match_compound_conditional(node, then_node, else_node): the
\* four short-circuit shapes.
match_compound_conditional(f, node, then_node, else_node) ==
    LET c == ConditionOf(f, node)
        tt == f.terminator[then_node].targets
        et == f.terminator[else_node].targets
    IN CASE IsFoldable(f, node, then_node) /\ tt[2] = else_node ->
              Fold(f, node, then_node,
                   RBinary(c, "and", ConditionOf(f, then_node)), tt[1], else_node)
         [] IsFoldable(f, node, then_node) /\ tt[1] = else_node ->
              Fold(f, node, then_node,
                   RBinary(c, "and", RUnary(ConditionOf(f, then_node))), tt[2], else_node)
         [] IsFoldable(f, node, else_node) /\ et[1] = then_node ->
              Fold(f, node, else_node,
                   RBinary(c, "or", ConditionOf(f, else_node)), then_node, et[2])
         [] IsFoldable(f, node, else_node) /\ et[2] = then_node ->
              Fold(f, node, else_node,
                   RBinary(c, "or", RUnary(ConditionOf(f, else_node))), then_node, et[1])
         [] OTHER -> [changed |-> FALSE, function |-> f]

\* try_match_pattern(node): [changed, function, panicked].
try_match_pattern(f, node) ==
    LET successors == successor_blocks(f, node)
        no == [changed |-> FALSE, function |-> f, panicked |-> FALSE]
        ok(r) == [changed |-> r.changed, function |-> r.function, panicked |-> FALSE]
    IN CASE Cardinality(successors) = 0 -> no
         [] Cardinality(successors) = 1 ->
              ok(match_jump(f, node, CHOOSE x \in successors : TRUE))
         [] Cardinality(successors) = 2 ->
              IF f.terminator[node].kind # "Conditional"
              THEN [no EXCEPT !.panicked = TRUE]
              ELSE ok(match_compound_conditional(f, node,
                          f.terminator[node].targets[1],
                          f.terminator[node].targets[2]))
         [] OTHER -> [no EXCEPT !.panicked = TRUE]

\* ---- the structured functions
\* The terminators a block b of an n-block function may have: a return, a
\* jump to another block, or a conditional between two distinct other blocks.
Terminators(n, b) ==
    {NoTerminator}
    \cup {TerminatorJump(x) : x \in (0 .. n - 1) \ {b}}
    \cup UNION {{TerminatorConditional(x, y) : y \in (0 .. n - 1) \ {b, x}} :
                    x \in (0 .. n - 1) \ {b}}

\* The assignments of terminators to the blocks of an n-block function.
TerminatorMaps(n) ==
    {t \in [0 .. n - 1 -> UNION {Terminators(n, b) : b \in 0 .. n - 1}] :
         \A b \in 0 .. n - 1 : t[b] \in Terminators(n, b)}

\* The terminators of the one-block function whose block jumps to itself.
SelfLoopMaps(n) ==
    IF n = 1 THEN {[b \in {0} |-> TerminatorJump(0)]} ELSE {}

\* The statements of block b as the lifter leaves them: a comment when the
\* block is a no-op, an assignment otherwise, and the If of a conditional.
BlockAst(b, terminator, no_op) ==
    (IF no_op THEN <<Comment(b)>>
     ELSE <<Assign(<<LLocal(b)>>, <<RLiteral("Number")>>, b)>>)
    \o (IF terminator.kind = "Conditional" THEN <<If(RLocal(b), b)>> ELSE <<>>)

\* The function of n blocks with the given terminators, entry 0.
Cfg(n, terminator, no_ops) ==
    [blocks |-> 0 .. n - 1,
     terminator |-> terminator,
     ast |-> [b \in 0 .. n - 1 |-> BlockAst(b, terminator[b], b \in no_ops)],
     edges |-> UNION {{<<b, x>> : x \in Range(terminator[b].targets)} :
                          b \in 0 .. n - 1},
     entry |-> 0, next |-> n, vacant |-> <<>>, recycle |-> FALSE,
     parameters |-> <<>>, local_count |-> n]

\* Whether every block of f can be reached from its entry.
AllReachable(f) == ReachSet(f, {f.entry}) = f.blocks

\* ---- GraphStructurer
\* The inputs of the structurer: functions of up to MaxBlocks blocks, all
\* reachable from the entry, at most one of them a no-op; no block jumps to
\* itself, except the block of a one-block function.
StructInit ==
    /\ \E n \in 1 .. MaxBlocks :
           \E t \in TerminatorMaps(n) \cup SelfLoopMaps(n), no_ops \in {{}} \cup {{b} : b \in 0 .. n - 1} :
               /\ function = Cfg(n, t, no_ops)
               /\ AllReachable(function)
    /\ phase = "new"
    /\ LiftIdle /\ StructIdle /\ DestructIdle /\ ReplaceIdle /\ InferIdle

\* GraphStructurer::new (lib.rs:22-51): back_edges' loop body is commented
\* out, so no edge is ever recorded.
StructNew ==
    /\ phase = "new"
    /\ root' = function.entry
    /\ back_edges' = {}
    /\ phase' = "match_blocks"
    /\ UNCHANGED <<function, dfs_postorder, changed, matching, result,
                   liftVars, destructVars, replaceVars, inferVars>>

RECURSIVE RemoveBlocks(_, _)
\* remove_block on each node of the set.
RemoveBlocks(f, S) ==
    IF S = {} THEN f
    ELSE LET b == CHOOSE x \in S : TRUE
         IN RemoveBlocks(RemoveBlock(f, b), S \ {b})

\* The head of match_blocks (lib.rs:98-120): the nodes the Dfs does not reach
\* are removed and a DfsPostOrder is started at the root.
MatchBlocksBegin ==
    /\ phase = "match_blocks"
    /\ function' = RemoveBlocks(function, function.blocks \ ReachSet(function, {root}))
    /\ dfs_postorder' = [stack |-> <<root>>, discovered |-> {}, finished |-> {}]
    /\ changed' = FALSE
    /\ phase' = "matching"
    /\ UNCHANGED <<root, back_edges, matching, result,
                   liftVars, destructVars, replaceVars, inferVars>>

\* The orders in which the members of S can be pushed.
Orders(S) ==
    {o \in [1 .. Cardinality(S) -> S] : \A i, j \in DOMAIN o : i # j => o[i] # o[j]}

\* DfsPostOrder::next, the top of the stack seen for the first time: its
\* undiscovered neighbours are pushed, in the order the graph lists them.
DfsDiscover ==
    /\ phase = "matching"
    /\ dfs_postorder.stack # <<>>
    /\ LET nx == dfs_postorder.stack[Len(dfs_postorder.stack)]
           discovered == dfs_postorder.discovered \cup {nx}
       IN /\ nx \notin dfs_postorder.discovered
          /\ \E o \in Orders(successor_blocks(function, nx) \ discovered) :
                 dfs_postorder' = [dfs_postorder EXCEPT
                                     !.discovered = discovered,
                                     !.stack = @ \o o]
    /\ UNCHANGED <<function, phase, root, back_edges, changed, matching, result,
                   liftVars, destructVars, replaceVars, inferVars>>

\* DfsPostOrder::next, the top of the stack seen again: it is popped, and the
\* first time this happens it is the node the loop of match_blocks
\* (lib.rs:121-124) hands to try_match_pattern.
DfsFinish ==
    /\ phase = "matching"
    /\ dfs_postorder.stack # <<>>
    /\ LET nx == dfs_postorder.stack[Len(dfs_postorder.stack)]
           r == try_match_pattern(function, nx)
       IN /\ nx \in dfs_postorder.discovered
          /\ dfs_postorder' = [dfs_postorder EXCEPT
                                 !.stack = DropLast(@, 1),
                                 !.finished = @ \cup {nx}]
          /\ IF nx \in dfs_postorder.finished
             THEN UNCHANGED <<function, phase, changed, matching>>
             ELSE /\ function' = r.function
                  /\ changed' = (changed \/ r.changed)
                  /\ matching' = [node |-> nx, changed |-> r.changed,
                                  node_count |-> Cardinality(function.blocks)]
                  /\ phase' = IF r.panicked THEN "panicked" ELSE phase
    /\ UNCHANGED <<root, back_edges, result, liftVars, destructVars, replaceVars, inferVars>>

\* The walk is over: match_blocks returns changed to collapse's loop
\* (lib.rs:128-132).
MatchBlocksEnd ==
    /\ phase = "matching"
    /\ dfs_postorder.stack = <<>>
    /\ phase' = IF changed THEN "match_blocks" ELSE "collapsed"
    /\ UNCHANGED <<function, root, back_edges, dfs_postorder, changed, matching,
                   result, liftVars, destructVars, replaceVars, inferVars>>

\* structure (lib.rs:140-143): the root's block is taken out of the graph and
\* its ast returned.
Structure ==
    /\ phase = "collapsed"
    /\ IF root \in function.blocks
       THEN /\ result' = function.ast[root]
            /\ function' = RemoveBlock(function, root)
            /\ phase' = "structured"
       ELSE /\ phase' = "panicked"
            /\ UNCHANGED <<function, result>>
    /\ UNCHANGED <<root, back_edges, dfs_postorder, changed, matching,
                   liftVars, destructVars, replaceVars, inferVars>>

StructNext ==
    \/ StructNew
    \/ MatchBlocksBegin
    \/ DfsDiscover
    \/ DfsFinish
    \/ MatchBlocksEnd
    \/ Structure

SpecStruct == StructInit /\ [][StructNext]_vars

\* ------------------------------------------- ssa::destruct (destruct.rs)
\* Most phi instructions of a function handed to destruct.
MaxPhis == 2

\* The blocks of the functions handed to destruct.
DestructNodes == {0, 1}

Phi(dest, incoming_values) == [dest |-> dest, incoming_values |-> incoming_values]

\* The phis tried: the destination is any local, the two incoming values are
\* the next two locals, or the next local twice.
Phis ==
    {Phi(d, <<(d + 1) % NumLocals, (d + 2) % NumLocals>>) : d \in Locals}
    \cup {Phi(d, <<(d + 1) % NumLocals, (d + 1) % NumLocals>>) : d \in Locals}

\* The phi lists of up to n phis.
PhiLists(n) == UNION {[1 .. k -> Phis] : k \in 0 .. n}

\* The statements of the blocks: with_return decides whether a third local
\* is used by a statement at all.
DestructAst(with_return) ==
    [b \in DestructNodes |->
        IF b = 0 THEN <<Assign(<<LLocal(0)>>, <<RLocal(1)>>, 0)>>
        ELSE <<Assign(<<LLocal(1)>>, <<RUnary(RLocal(0))>>, 1)>>
             \o (IF with_return THEN <<Return(<<RLocal(2)>>, 2)>> ELSE <<>>)]

\* The locals a statement of f reads or writes.
StatementLocals(f) ==
    UNION {UNION {Range(values(f.ast[b][i])) : i \in DOMAIN f.ast[b]} :
               b \in f.blocks}

\* The locals a phi of f defines or takes.
PhiLocals(f) ==
    UNION {UNION {{f.phi_instructions[b][i].dest}
                  \cup Range(f.phi_instructions[b][i].incoming_values) :
                      i \in DOMAIN f.phi_instructions[b]} :
               b \in f.blocks}

\* def_use.get(local) is Some: the oracle has an entry for the local.
DefUseHas(du, f, local) ==
    \/ local \in StatementLocals(f)
    \/ (du.counts_phis /\ local \in PhiLocals(f))

\* The locations (node, index) at which a statement reads or writes the
\* local: the reads and writes of its def_use entry.
Locations(f, local) ==
    UNION {{<<b, i>> : i \in {j \in DOMAIN f.ast[b] :
                                local \in Range(values(f.ast[b][j]))}} :
               b \in f.blocks}

\* The inner for_each (destruct.rs:22-39): the statement at each location of
\* incoming_value has it replaced by dest.
RewriteUses(f, incoming_value, dest) ==
    [f EXCEPT !.ast =
        [b \in f.blocks |->
            [i \in DOMAIN f.ast[b] |->
                IF <<b, i>> \in Locations(f, incoming_value)
                THEN replace_values(f.ast[b][i], incoming_value, dest)
                ELSE f.ast[b][i]]]]

RECURSIVE CoalesceIncoming(_, _, _, _, _)
\* The loop over the incoming values of a phi (destruct.rs:20-40), from the
\* j-th on: [function, panicked]; def_use.get(..).unwrap() panics on a local
\* without an entry.
CoalesceIncoming(du, f, incoming_values, j, dest) ==
    IF j > Len(incoming_values) THEN [function |-> f, panicked |-> FALSE]
    ELSE IF ~DefUseHas(du, f, incoming_values[j])
    THEN [function |-> f, panicked |-> TRUE]
    ELSE CoalesceIncoming(du, RewriteUses(f, incoming_values[j], dest),
                          incoming_values, j + 1, dest)

\* phi_instructions.remove(phi_index), phi_index 0-based.
RemovePhi(f, node, index) ==
    [f EXCEPT !.phi_instructions[node] = RemoveAt(@, index)]

\* An inner loop that stops short of the first phi: (1..phis).rev().
PhiRangeFromOne(phis) == 1 .. phis - 1

\* The indices the inner loop visits, from the last down: (0..phis).rev().
PhiRange(phis) == 0 .. phis - 1

DestructInit ==
    /\ \E p0 \in PhiLists(MaxPhis), p1 \in PhiLists(MaxPhis), r \in BOOLEAN :
           /\ Len(p0) + Len(p1) <= MaxPhis
           /\ function = [blocks |-> DestructNodes,
                          phi_instructions |-> [b \in DestructNodes |->
                                                   IF b = 0 THEN p0 ELSE p1],
                          ast |-> DestructAst(r)]
    /\ def_use \in [counts_phis : BOOLEAN]
    /\ snapshot = <<>>
    /\ cursor = 0
    /\ phi_index = 0
    /\ phase = "destruct"
    /\ LiftIdle /\ StructIdle /\ ReplaceIdle /\ InferIdle

\* The head of destruct (destruct.rs:7-16): the (node, phi count) pairs are
\* collected, in the order the block map yields them.
DestructBegin ==
    /\ phase = "destruct"
    /\ \E o \in Orders(function.blocks) :
           snapshot' = [i \in DOMAIN o |->
                           [node |-> o[i], phis |-> Len(function.phi_instructions[o[i]])]]
    /\ cursor' = 1
    /\ phi_index' = snapshot'[1].phis - 1
    /\ phase' = "phis"
    /\ UNCHANGED <<function, def_use, liftVars, structVars, replaceVars, inferVars>>

\* One iteration of the inner loop (destruct.rs:17-47): the uses of the
\* phi's incoming values are rewritten to its destination, then the phi is
\* removed.
DestructPhi ==
    /\ phase = "phis"
    /\ cursor <= Len(snapshot)
    /\ phi_index \in PhiRange(snapshot[cursor].phis)
    /\ LET node == snapshot[cursor].node
           phi == function.phi_instructions[node][phi_index + 1]
           r == CoalesceIncoming(def_use, function, phi.incoming_values, 1, phi.dest)
       IN IF r.panicked
          THEN /\ phase' = "panicked"
               /\ UNCHANGED <<function, phi_index>>
          ELSE /\ function' = RemovePhi(r.function, node, phi_index)
               /\ phi_index' = phi_index - 1
               /\ phase' = phase
    /\ UNCHANGED <<def_use, snapshot, cursor, liftVars, structVars, replaceVars, inferVars>>

\* The inner loop is over: the outer loop takes the next pair.
DestructNextBlock ==
    /\ phase = "phis"
    /\ cursor <= Len(snapshot)
    /\ phi_index \notin PhiRange(snapshot[cursor].phis)
    /\ cursor' = cursor + 1
    /\ phi_index' = IF cursor < Len(snapshot) THEN snapshot[cursor + 1].phis - 1 ELSE 0
    /\ UNCHANGED <<function, phase, def_use, snapshot, liftVars, structVars, replaceVars, inferVars>>

\* destruct returns.
DestructReturn ==
    /\ phase = "phis"
    /\ cursor > Len(snapshot)
    /\ phase' = "destructed"
    /\ UNCHANGED <<function, def_use, snapshot, cursor, phi_index,
                   liftVars, structVars, replaceVars, inferVars>>

DestructNext ==
    \/ DestructBegin
    \/ DestructPhi
    \/ DestructNextBlock
    \/ DestructReturn

SpecDestruct == DestructInit /\ [][DestructNext]_vars

\* ------------------------------------------- replace_values, there and back
\* The statements the calls are tried on.
ReplaceStatements ==
    LET lefts == {<<LLocal(a)>> : a \in Locals}
                 \cup {<<LIndex(RLocal(e[1]), RLocal(e[2]))>> : e \in Locals \X Locals}
                 \cup {<<LLocal(e[1]), LLocal(e[2])>> : e \in Locals \X Locals}
        rights == {<<RLocal(c)>> : c \in Locals}
                  \cup {<<RUnary(RLocal(c))>> : c \in Locals}
                  \cup {<<RCall(RLocal(e[1]), <<RLocal(e[2])>>)>> : e \in Locals \X Locals}
    IN {Assign(e[1], e[2], 0) : e \in lefts \X rights}
       \cup {If(RLocal(c), 0) : c \in Locals}
       \cup {Return(r, 0) : r \in rights}
       \cup {CallStatement(RCall(RLocal(e[1]), <<RLocal(e[2])>>), 0) : e \in Locals \X Locals}
       \cup {Comment(0)}

ReplaceInit ==
    /\ stmt \in ReplaceStatements
    /\ original = stmt
    /\ old \in Locals
    /\ new \in Locals
    /\ phase = "replace"
    /\ function = EmptyFunction(FALSE)
    /\ LiftIdle /\ StructIdle /\ DestructIdle /\ InferIdle

\* replace_values(old, new) on the statement.
ReplaceForward ==
    /\ phase = "replace"
    /\ stmt' = replace_values(stmt, old, new)
    /\ phase' = "replaced"
    /\ UNCHANGED <<function, original, old, new, liftVars, structVars, destructVars, inferVars>>

\* replace_values(new, old) on the statement.
ReplaceBack ==
    /\ phase = "replaced"
    /\ stmt' = replace_values(stmt, new, old)
    /\ phase' = "restored"
    /\ UNCHANGED <<function, original, old, new, liftVars, structVars, destructVars, inferVars>>

ReplaceNext ==
    \/ ReplaceForward
    \/ ReplaceBack

SpecReplace == ReplaceInit /\ [][ReplaceNext]_vars

\* ------------------------------------------------------ Table::infer runs
\* Most entries of a literal handed to infer.
MaxEntries == 3

\* The types the values of the entries infer to.
EntryTypes == {TypeAny, Prim("Number"), Prim("String"),
               Union({Prim("Number"), Prim("String")})}

\* The literals: up to MaxEntries entries, positional or named x or y, no
\* name twice.
Literals ==
    UNION {{e \in [1 .. n -> {TypedEntry(f, ty) : f \in {"", "x", "y"}, ty \in EntryTypes}] :
               \A i, j \in 1 .. n :
                   (i # j /\ e[i].field # "") => e[i].field # e[j].field} :
           n \in 0 .. MaxEntries}

InferInit ==
    /\ table \in Literals
    /\ inferred = [indexer |-> TypeAny, fields |-> <<>>]
    /\ phase = "infer"
    /\ function = EmptyFunction(FALSE)
    /\ LiftIdle /\ StructIdle /\ DestructIdle /\ ReplaceIdle

\* infer is called on the literal.
Infer ==
    /\ phase = "infer"
    /\ inferred' = TableInfer(table)
    /\ phase' = "inferred"
    /\ UNCHANGED <<function, table, liftVars, structVars, destructVars, replaceVars>>

InferNext == Infer

SpecInfer == InferInit /\ [][InferNext]_vars

\* ------------------------------------------------------------------ claims
\* The blocks of f reachable from its entry.
ReachableBlocks(f) ==
    IF f.entry \in f.blocks THEN ReachSet(f, {f.entry}) ELSE {}

\* C1: after lift returns, the entry id set from offset 0 is a block of the
\* graph, every target of every remaining block's terminator is a block of
\* the graph, and the block's successors in the graph are exactly its
\* terminator's targets.
C1_TargetsValid ==
    phase = "returned" =>
        /\ function.entry \in function.blocks
        /\ \A b \in function.blocks :
               /\ Range(function.terminator[b].targets) \subseteq function.blocks
               /\ successor_blocks(function, b) = Range(function.terminator[b].targets)

\* C2: after lift returns, every block remaining in the graph is reachable
\* from the entry block.
C2_AllReachable ==
    phase = "returned" => function.blocks \subseteq ReachableBlocks(function)

\* The offsets the statements stand for: a statement's own, and those of the
\* entries folded into its table literals.
EmittedPcs(stmts) ==
    UNION {{st.pc} \cup
           (IF st.k = "Assign"
            THEN UNION {{e.pc : e \in Range(rv.entries)} :
                        rv \in {x \in Range(st.right) : x.t = "Table"}}
            ELSE {}) : st \in Range(stmts)}

\* Whether the instruction at offset i of the span being closed is
\* represented: a jump or numeric-for by the terminator, a NewTable by a
\* table literal assigned to its register's local, any other instruction by
\* a statement or a table entry that came from it.
Represented(i) ==
    LET insn == bytecode.code[i]
    IN CASE insn.op \in {"Jump"} \cup ForLoopOps -> TRUE
         [] insn.op = "NewTable" ->
              \E st \in Range(statements) :
                  /\ st.k = "Assign"
                  /\ st.left = <<LLocal(locals[insn.A])>>
                  /\ st.right # <<>> /\ st.right[1].t = "Table"
         [] OTHER ->
              i \in EmittedPcs(statements)
                      \cup UNION {EmittedPcs(function.ast[b]) : b \in function.blocks}

\* C8: when the translation of a span is complete, every instruction of the
\* span is represented by a statement, a table entry or the terminator.
C8_NothingElided ==
    (phase = "lift_blocks" /\ offset > SpanEnd
       /\ SpanInside(bytecode.code, SpanStart, SpanEnd))
        => \A i \in SpanStart .. SpanEnd : Represented(i)

\* The stream holds a SetList with block_number 0.
HasSetListZero ==
    \E i \in DOMAIN bytecode.code :
        bytecode.code[i].op = "SetList" /\ bytecode.code[i].C = 0

\* C10: a stream holding a SetList with block_number 0 never gets past block
\* discovery: no local is allocated, no instruction translated, no Function
\* returned.
C10_FatalInDiscovery ==
    HasSetListZero =>
        /\ phase \in {"lift", "create_block_map", "panicked"}
        /\ locals = <<>>
        /\ function.local_count = 0
        /\ statements = <<>>
        /\ \A b \in function.blocks : function.ast[b] = <<>>

\* C10 witness: block discovery has stopped on a SetList with block_number 0
\* that is not the first instruction.
C10_Witness ==
    /\ phase = "panicked"
    /\ insn_index > 0
    /\ bytecode.code[insn_index].op = "SetList"
    /\ bytecode.code[insn_index].C = 0

\* Whether v dominates u: u = v, or no path from the root reaches u without
\* passing through v.
Dominates(f, r, v, u) ==
    \/ u = v
    \/ v = r
    \/ u \notin ReachSet([f EXCEPT !.edges = {e \in @ : e[1] # v /\ e[2] # v}], {r})

\* An edge u -> v of reachable blocks whose head dominates its tail.
HasBackEdge(f, r) ==
    \E e \in f.edges :
        /\ e[1] \in ReachSet(f, {r})
        /\ Dominates(f, r, e[2], e[1])

\* C4: when collapse has finished, the graph has exactly one node, or a
\* back-edge remains in it and the last pass changed nothing.
C4_OneNodeOrBackEdge ==
    phase = "collapsed" =>
        \/ Cardinality(function.blocks) = 1
        \/ (HasBackEdge(function, root) /\ ~changed)

\* C5: a call of try_match_pattern that returned true has strictly decreased
\* the number of nodes of the graph.
C5_Progress ==
    (phase \in {"matching", "match_blocks", "collapsed"} /\ matching.changed)
        => Cardinality(function.blocks) < matching.node_count

\* Whether n heads a diamond: a conditional whose two heads are distinct
\* plain blocks reached from n only and jumping to the same block.
IsDiamond(f, n) ==
    /\ f.terminator[n].kind = "Conditional"
    /\ LET t == f.terminator[n].targets[1]
           e == f.terminator[n].targets[2]
       IN /\ t # e
          /\ {t, e} \subseteq f.blocks
          /\ predecessor_blocks(f, t) = {n}
          /\ predecessor_blocks(f, e) = {n}
          /\ f.terminator[t].kind = "Jump"
          /\ f.terminator[e].kind = "Jump"
          /\ f.terminator[t].targets = f.terminator[e].targets
          /\ f.terminator[t].targets[1] \notin {n, t, e}

\* C6: structuring reduces every diamond: when collapse has finished no node
\* still heads one (its heads were folded into an If and removed).
C6_DiamondReduced ==
    phase = "collapsed" => \A n \in function.blocks : ~IsDiamond(function, n)

\* C7: when structuring stops with more than one node left, the returned
\* block holds the statements of every block that remained.
C7_NothingDropped ==
    phase = "structured" =>
        \A b \in function.blocks :
            \A st \in Range(function.ast[b]) : st \in Range(result)

\* C9 as stated: after replace_values(x, y) and then replace_values(y, x) the
\* read operands and the written operands of the statement are what they were.
C9_RoundTrip ==
    phase = "restored" =>
        /\ values_read(stmt) = values_read(original)
        /\ values_written(stmt) = values_written(original)

\* C9 amended: the two calls restore the operands when y does not occur in
\* the statement before the calls, or x and y are the same local.
C9_RoundTripFresh ==
    (phase = "restored" /\ (old = new \/ new \notin Range(values(original))))
        => /\ values_read(stmt) = values_read(original)
           /\ values_written(stmt) = values_written(original)
           /\ stmt = original

\* C9 witness: x is both read and written by the statement, y is a different
\* local that does not occur in it, and both calls have run.
C9_Witness ==
    /\ phase = "restored"
    /\ old # new
    /\ old \in Range(values_read(original))
    /\ old \in Range(values_written(original))
    /\ new \notin Range(values(original))
    /\ stmt = original

\* C3: after destruct returns, every block of the function has an empty
\* phi-instruction list.
C3_NoPhiRemains ==
    phase = "destructed" =>
        \A b \in function.blocks : function.phi_instructions[b] = <<>>

\* C3 witness: destruct has returned on a function one of whose blocks held
\* two phis.
C3_Witness ==
    /\ phase = "destructed"
    /\ \E i \in DOMAIN snapshot : snapshot[i].phis >= 2

\* Whether the instruction transfers control: a jump, a test, a loop
\* instruction, or a LoadBoolean that skips.
IsBranch(insn) ==
    \/ insn.op \in ConditionalOps \cup ForLoopOps \cup {"Jump", "TestSet"}
    \/ (insn.op = "LoadBoolean" /\ insn.C = 1)

\* The stream has no branch instruction and a single Return, its last
\* instruction.
StraightLine(code) ==
    /\ CodeLen(code) >= 1
    /\ code[CodeLen(code) - 1].op = "Return"
    /\ \A i \in 0 .. CodeLen(code) - 2 : ~IsBranch(code[i]) /\ code[i].op # "Return"

\* C11: lifting a stream without branch instruction that ends with its single
\* Return yields exactly one block, the entry, with no outgoing edge and no
\* terminator, whose last statement is the Return.
C11_SingleBlock ==
    (phase = "returned" /\ StraightLine(bytecode.code)) =>
        /\ function.blocks = {function.entry}
        /\ successor_blocks(function, function.entry) = {}
        /\ function.terminator[function.entry] = NoTerminator
        /\ function.ast[function.entry] # <<>>
        /\ LET ast == function.ast[function.entry]
           IN /\ ast[Len(ast)].k = "Return"
              /\ ast[Len(ast)].pc = CodeLen(bytecode.code) - 1

\* C11 witness: lift has returned on a straight-line stream of several
\* instructions whose block holds several statements.
C11_Witness ==
    /\ phase = "returned"
    /\ StraightLine(bytecode.code)
    /\ CodeLen(bytecode.code) >= 3
    /\ function.entry \in function.blocks
    /\ Len(function.ast[function.entry]) >= 2

\* The locals the statements read or write.
LocalsOf(stmts) == UNION {Range(values(st)) : st \in Range(stmts)}

\* C12: once the locals are allocated there is exactly one local per register,
\* pairwise distinct; the parameters are the locals of the first registers in
\* register order; and every local read or written by a statement, of the
\* span in translation or of a block, is the local of a register.
C12_OneLocalPerRegister ==
    phase \in {"lift_blocks", "remove_orphans", "returned"} =>
        /\ DOMAIN locals = 0 .. NumRegisters - 1
        /\ \A r1, r2 \in DOMAIN locals : r1 # r2 => locals[r1] # locals[r2]
        /\ function.parameters = [j \in 1 .. NumParameters |-> locals[j - 1]]
        /\ LocalsOf(statements) \subseteq Range(locals)
        /\ \A b \in function.blocks : LocalsOf(function.ast[b]) \subseteq Range(locals)

\* C13: a pass of match_blocks over a graph that consists of the root block
\* only changes nothing, step by step: the graph stays as it is, no change is
\* flagged, and the pass ends with false.
C13_OneNodeNoOp ==
    [][(/\ phase \in {"match_blocks", "matching"}
        /\ function.blocks = {root}
        /\ (phase = "matching" => ~changed /\ dfs_postorder.finished \subseteq {root}))
       => (/\ function' = function
           /\ ~changed'
           /\ phase' \in {"matching", "collapsed"})]_vars

LiftedSpans ==
    {r \in Range(code_ranges(nodes, blocks_to_skip, bytecode.code)) :
        r[1] <= r[2] /\ nodes[r[1]] \in function.blocks}

\* C15: after lift returns, a block whose last instruction is a numeric-for
\* instruction at offset i has a terminator of two targets, the block of the
\* loop body and the block of i + 1, and the block of i + 1 is one of its
\* successors and still in the graph.
C15_ForLoopTwoTargets ==
    phase = "returned" =>
        \A r \in LiftedSpans :
            bytecode.code[r[2]].op \in ForLoopOps =>
                /\ function.terminator[nodes[r[1]]].targets
                       = <<nodes[JumpTarget(r[2], bytecode.code[r[2]].A)], nodes[r[2] + 1]>>
                /\ nodes[r[2] + 1] \in function.blocks
                /\ nodes[r[2] + 1] \in successor_blocks(function, nodes[r[1]])

\* The instructions that compare and skip.
ComparisonOps == {"Equal", "LessThan", "LessThanOrEqual", "Test"}

\* C16: once every span is translated, a block whose last instruction is
\* Equal, LessThan, LessThanOrEqual or Test has as its last statement the If
\* translated from that instruction, and its terminator is the conditional
\* between the blocks of end + 1 and end + 2.
C16_ComparisonIsIf ==
    phase \in {"remove_orphans", "returned"} =>
        \A r \in LiftedSpans :
            bytecode.code[r[2]].op \in ComparisonOps =>
                LET ast == function.ast[nodes[r[1]]]
                IN /\ ast # <<>>
                   /\ ast[Len(ast)].k = "If"
                   /\ ast[Len(ast)].pc = r[2]
                   /\ function.terminator[nodes[r[1]]]
                          = TerminatorConditional(nodes[r[2] + 1], nodes[r[2] + 2])

\* The offsets of the SetList instructions of the stream up to offset pc.
SetListsUpTo(code, pc) == {i \in 0 .. pc : code[i].op = "SetList"}

\* The instruction at offset pc is the k-th of a chain of k >= 2 SetLists on
\* one table: the stream up to pc is one block holding one NewTable of the
\* table, before the first SetList, and its SetLists carry the block numbers
\* 1, 2, ..., k in this order.
IsChainEnd(code, pc) ==
    /\ pc \in DOMAIN code
    /\ code[pc].op = "SetList"
    /\ code[pc].C >= 2
    /\ \A i \in 0 .. pc : ~IsBranch(code[i]) /\ code[i].op # "Return"
    /\ Cardinality({i \in 0 .. pc : code[i].op = "NewTable"}) = 1
    /\ \A i \in SetListsUpTo(code, pc) :
           /\ code[i].A = code[pc].A
           /\ code[i].C = Cardinality(SetListsUpTo(code, i))
           /\ \E j \in 0 .. i : code[j].op = "NewTable" /\ code[j].A = code[pc].A

\* The statements that assign a table literal.
TableAssignments(stmts) ==
    {i \in DOMAIN stmts :
        /\ stmts[i].k = "Assign"
        /\ stmts[i].right # <<>>
        /\ stmts[i].right[1].t = "Table"}

\* C17: the k-th SetList of a chain does not fail, and after it the span
\* holds exactly one assignment of a table literal, to the table's local,
\* whose entries are in the order of the instructions they came from.
C17_ChainAppends ==
    /\ (phase = "panicked" /\ ranges # <<>>) => ~IsChainEnd(bytecode.code, offset)
    /\ (phase = "lift_blocks" /\ IsChainEnd(bytecode.code, offset - 1)) =>
           /\ Cardinality(TableAssignments(statements)) = 1
           /\ \A i \in TableAssignments(statements) :
                  /\ statements[i].left = <<LLocal(locals[bytecode.code[offset - 1].A])>>
                  /\ LET entries == statements[i].right[1].entries
                     IN \A a, b \in DOMAIN entries :
                            a < b => entries[a].pc < entries[b].pc

\* The instruction at offset pc is a SetList with number_of_elements 0 that
\* follows a VarArg or a Call.
IsVariadicSetList(code, pc) ==
    /\ pc \in DOMAIN code /\ pc - 1 \in DOMAIN code
    /\ code[pc].op = "SetList"
    /\ code[pc].B = 0
    /\ code[pc - 1].op \in {"VarArg", "Call"}

\* C18: after a SetList with number_of_elements 0 is translated, the last
\* entry of the table literal it emitted is positional, and it is the vararg
\* when the instruction just before the SetList in the stream is VarArg and a
\* call otherwise, wherever the span starts.
C18_VariadicChoice ==
    (/\ phase = "lift_blocks"
     /\ ranges # <<>>
     /\ offset - 1 \in SpanStart .. SpanEnd
     /\ IsVariadicSetList(bytecode.code, offset - 1)) =>
        /\ statements # <<>>
        /\ Len(statements) \in TableAssignments(statements)
        /\ LET entries == statements[Len(statements)].right[1].entries
           IN /\ entries # <<>>
              /\ entries[Len(entries)].field = ""
              /\ IF bytecode.code[offset - 2].op = "VarArg"
                 THEN entries[Len(entries)].value = RVarArg
                 ELSE entries[Len(entries)].value.t = "Call"

\* C19: once every span is translated, a LoadBoolean with skip_next at
\* offset i is the last instruction of its block, the block holds the
\* assignment translated from it, and the block's terminator is the jump to
\* the block of i + 2.
C19_SkipEndsBlock ==
    phase \in {"remove_orphans", "returned"} =>
        \A r \in LiftedSpans :
            \A i \in r[1] .. r[2] :
                (bytecode.code[i].op = "LoadBoolean" /\ bytecode.code[i].C = 1) =>
                    /\ i = r[2]
                    /\ \E st \in Range(function.ast[nodes[r[1]]]) :
                           st.k = "Assign" /\ st.pc = i
                    /\ function.terminator[nodes[r[1]]] = TerminatorJump(nodes[i + 2])

\* The positional types of the literal that are no strict subtype of another
\* positional type.
PositionalLeft(entries) ==
    LET types == {e.type : e \in {x \in Range(entries) : x.field = ""}}
    IN {ty \in types : ~\E x \in types : ty # x /\ is_subtype_of(ty, x)}

\* C20: the indexer's value type of an inferred literal comes from the
\* positional entries alone: Any when no positional type is left after the
\* strict subtypes of other positional types are dropped, that type when one
\* is left, their union otherwise; and the fields are the named entries.
C20_IndexerFromPositional ==
    phase = "inferred" =>
        /\ inferred.indexer = InferIndexer(PositionalLeft(table))
        /\ DOMAIN inferred.fields = {e.field : e \in Range(table)} \ {""}
        /\ \A e \in Range(table) :
               e.field # "" => inferred.fields[e.field] = e.type

\* C21: while collapse runs and when it has finished the root block is in the
\* graph, and a node the post-order walk is about to hand to
\* try_match_pattern is in the graph.
C21_RootKept ==
    /\ phase \in {"match_blocks", "matching", "collapsed"} => root \in function.blocks
    /\ (phase = "matching" /\ dfs_postorder.stack # <<>>) =>
           LET nx == dfs_postorder.stack[Len(dfs_postorder.stack)]
           IN (nx \in dfs_postorder.discovered \ dfs_postorder.finished)
                  => nx \in function.blocks

\* The instruction indices a span (start, end) holds.
SpanIndices(r) == r[1] .. r[2]

\* C22: after block discovery the spans of code_ranges are pairwise disjoint;
\* every instruction index is in exactly one span or is a skipped offset, never
\* both; a span lies inside the stream or is the empty span that starts at the
\* stream's length; every span starts at a key of the node map whose block is
\* in the graph.
C22_SpansPartition ==
    phase \in {"allocate_locals", "lift_blocks"} =>
        LET spans == code_ranges(nodes, blocks_to_skip, bytecode.code)
            len == CodeLen(bytecode.code)
            holders(i) == {a \in 1 .. Len(spans) : i \in SpanIndices(spans[a])}
        IN /\ \A a, b \in 1 .. Len(spans) :
                  a # b => SpanIndices(spans[a]) \cap SpanIndices(spans[b]) = {}
           /\ \A i \in 0 .. len - 1 :
                  Cardinality(holders(i)) + (IF i \in blocks_to_skip THEN 1 ELSE 0) = 1
           /\ \A a \in 1 .. Len(spans) :
                  \/ spans[a][1] <= spans[a][2] /\ spans[a][2] <= len - 1
                  \/ spans[a] = <<len, len - 1>>
           /\ \A a \in 1 .. Len(spans) :
                  /\ spans[a][1] \in DOMAIN nodes
                  /\ nodes[spans[a][1]] \in function.blocks

====
